---------------------------- MODULE Spec2Model ----------------------------
(***************************************************************************)
(* The task / participant lifecycle of the faucet-claim backend.           *)
(*                                                                         *)
(* The persistent store (MongoDB through mongoose) is three collections:   *)
(* tasks, participants and users.  Every route handler is an async         *)
(* function: between two awaits other requests run, so a handler is a      *)
(* sequence of atomic steps, one per await that touches the store or an    *)
(* external collaborator.  A request slot holds the handler's position     *)
(* (pc) and its local variables.                                           *)
(*                                                                         *)
(* mongoose's save() sends an update holding only the paths whose value    *)
(* differs from the value loaded ($set of the modified paths, matched by   *)
(* _id alone); findByIdAndUpdate applies its $inc / $set in one store      *)
(* operation.                                                              *)
(***************************************************************************)
EXTENDS Integers, FiniteSets, Sequences, TLC

\* ---------------------------------------------------------------- bounds
NumUsers == 2
NumReqs == 2
MaxTime == 2
MaxTasks == 1

Users == 1..NumUsers
Tasks == {1}
Reqs == 1..NumReqs
\* _ids: one document per (user, task), and one more that a duplicate would take
PartIds == 1..(NumUsers * Cardinality(Tasks) + 1)

Nil == "nil"        \* null, in a string field
NoDoc == [none |-> TRUE]   \* no document
NoSig == <<>>       \* null, in claimSignature
NoDate == 0         \* null, in claimedAt; the clock's readings start at 1

\* ------------------------------------------------------ program constants
\* tasks.js: rewardPerParticipant = '1000000000000000' wei (0.001 ETH); held
\* here in gwei (10^9 wei) so that sums stay inside TLC's integers.
RewardPerParticipant == 1000000
ReputationIncrement == 10
\* tasks.js: maxParticipants isInt({min: 1, max: 1000})
MaxParticipantsLimit == 1000
\* one ether in the unit of the amounts (1e18 wei), and the digits after the
\* point of an amount in ether
EtherUnit == 1000000000
FractionDigits == 9
Creator == CHOOSE u \in 1..NumUsers : \A v \in 1..NumUsers : u <= v
TxHashes == {"0xabc", "0xdef"}

VARIABLES
  tasks,         \* Task collection: task id -> document
  participants,  \* Participant collection: _id -> document, or NoDoc
  users,         \* User collection: user id -> document
  reqs,          \* request slot -> the handler's pc and locals
  last,          \* the response the step just taken sent, if it sent one
  now,           \* the wall clock read by new Date()
  sigWrites,     \* history: per participant _id, the updates that $set claimSignature
  chain,         \* reward contract: the tasks it holds escrow for (its task counter)
  escrows        \* history: per Task _id, the calls of createTaskOnChain made for it

vars == <<tasks, participants, users, reqs, last, now, sigWrites, chain, escrows>>

\* ------------------------------------------------------------- documents
\* models/Participant.js: the defaults of a new document
NewParticipant(u, t) ==
  [user |-> u, task |-> t, status |-> "PENDING", proofSubmitted |-> FALSE,
   proofData |-> Nil, verificationNotes |-> Nil, rewardAmount |-> 0,
   claimSignature |-> NoSig, claimedAt |-> NoDate, transactionHash |-> Nil]

\* models/User.js: a registered user; fid, walletAddress and isVerified are
\* written by no route after registration
NewUser(u) ==
  [fid |-> u, walletAddress |-> u, isVerified |-> (u = Creator),
   totalTasksCreated |-> 0, totalTasksCompleted |-> 0,
   totalRewardsEarned |-> 0, reputation |-> 0]

\* models/Task.js: a task as POST /tasks leaves it after a successful escrow
ActiveTask(maxP, exp, mustV, minF) ==
  [creator |-> Creator, status |-> "ACTIVE", taskType |-> "FOLLOW_USER",
   targetData |-> [userToFollow |-> "target", castHashToLike |-> Nil,
                   castHashToRecast |-> Nil, channelToJoin |-> Nil],
   rewardPerParticipant |-> RewardPerParticipant, maxParticipants |-> maxP,
   currentParticipants |-> 0, totalFunding |-> RewardPerParticipant * maxP,
   contractTaskId |-> 1, expiresAt |-> exp,
   requirements |-> [minimumFollowers |-> minF, mustBeVerified |-> mustV]]

\* ------------------------------------------------------------ store access
Docs == {i \in PartIds : participants[i] # NoDoc}

\* Participant.findOne({user, task}): the documents the query matches
FindOne(u, t) ==
  {i \in Docs : participants[i].user = u /\ participants[i].task = t}

First(S) == CHOOSE i \in S : \A j \in S : i <= j

\* participantSchema.index({user: 1, task: 1}, {unique: true})
UniqueIndexAllows(u, t) == FindOne(u, t) = {}

NextId == Cardinality(Docs) + 1

\* the handler's copy of a document: of the paths the query returns, those
\* the handler goes on to read or assign
Copy(doc, paths) == [f \in paths |-> doc[f]]

\* the paths mongoose holds as modified: those assigned a value that differs
\* from the value loaded (a new Date() differs from every date stored)
Modified(loaded, local) ==
  {f \in DOMAIN local : f \notin DOMAIN loaded \/ local[f] # loaded[f]}

\* mongoose save(): $set of the modified paths on the stored document
SaveDoc(stored, loaded, local) ==
  [f \in DOMAIN stored |->
     IF f \in Modified(loaded, local) THEN local[f] ELSE stored[f]]

\* with(doc, f, v): the copy after doc.f = v
Assign(doc, assignments) ==
  [f \in DOMAIN doc \cup DOMAIN assignments |->
     IF f \in DOMAIN assignments THEN assignments[f] ELSE doc[f]]

\* --------------------------------------------------------------- requests
\* a handler between two awaits: its position and its local variables
Idle ==
  [op |-> "none", pc |-> "idle", user |-> 0, task |-> 0, pid |-> 0,
   arg |-> Nil, ld |-> NoDoc, tk |-> NoDoc, num |-> 0, hc |-> Nil,
   sig |-> NoSig, sp |-> Nil, err |-> Nil, wrote |-> FALSE]

\* what a step sends: nothing, or a response; with a response go the locals
\* of the handler that sent it
NoResponse ==
  [op |-> "none", status |-> 0, message |-> Nil, user |-> 0, task |-> 0,
   pid |-> 0, arg |-> Nil, num |-> 0, hc |-> Nil, sig |-> NoSig, sp |-> Nil,
   err |-> Nil, wrote |-> FALSE]

Free(r) == reqs[r].pc = "idle"

At(r, op, pc) == reqs[r].op = op /\ reqs[r].pc = pc

\* the handler goes on to its next await with the locals q
Goto(r, q) ==
  /\ reqs' = [reqs EXCEPT ![r] = q]
  /\ last' = NoResponse

\* res.status(..).json(..): the handler of locals q ends
Respond(r, q, status, message) ==
  /\ reqs' = [reqs EXCEPT ![r] = Idle]
  /\ last' = [op |-> q.op, status |-> status, message |-> message,
              user |-> q.user, task |-> q.task, pid |-> q.pid, arg |-> q.arg,
              num |-> q.num, hc |-> q.hc, sig |-> q.sig, sp |-> q.sp,
              err |-> q.err, wrote |-> q.wrote]

\* catch (error) { res.status(500).json({ error: error.message }) }
Catch(r, q, error) == Respond(r, [q EXCEPT !.err = error], 500, error)

\* a request arrives: auth has set req.user.userId
Arrive(op, u, t) == [Idle EXCEPT !.op = op, !.user = u, !.task = t]

\* ------------------------------------------------- POST /join/:taskId
\* as JoinFindTask, with the capacity compared by > for >=
JoinFindTask_OneOver(r) ==
  /\ Free(r)
  /\ now < MaxTime
  /\ now' = now + 1
  /\ \E u \in Users, t \in Tasks :
       LET q == Arrive("join", u, t)
           task == tasks[t]
       IN IF task.status # "ACTIVE" THEN Respond(r, q, 400, "Task is not active")
          ELSE IF task.currentParticipants > task.maxParticipants
            THEN Respond(r, q, 400, "Task is full")
          ELSE IF now' > task.expiresAt THEN Respond(r, q, 400, "Task has expired")
          ELSE Goto(r, [q EXCEPT !.pc = "findParticipant",
                  !.tk = Copy(task, {"currentParticipants", "requirements"})])
  /\ UNCHANGED <<tasks, participants, users, sigWrites, chain, escrows>>

\* Task.findById and the checks on the task just read (lines 16-32); the
\* expiry check reads the clock
JoinFindTask(r) ==
  /\ Free(r)
  /\ now < MaxTime
  /\ now' = now + 1
  /\ \E u \in Users, t \in Tasks :
       LET q == Arrive("join", u, t)
           task == tasks[t]
       IN IF task.status # "ACTIVE" THEN Respond(r, q, 400, "Task is not active")
          ELSE IF task.currentParticipants >= task.maxParticipants
            THEN Respond(r, q, 400, "Task is full")
          ELSE IF now' > task.expiresAt THEN Respond(r, q, 400, "Task has expired")
          ELSE Goto(r, [q EXCEPT !.pc = "findParticipant",
                  !.tk = Copy(task, {"currentParticipants", "requirements"})])
  /\ UNCHANGED <<tasks, participants, users, sigWrites, chain, escrows>>

\* Participant.findOne({user, task}) (lines 35-42)
JoinFindParticipant(r) ==
  /\ At(r, "join", "findParticipant")
  /\ IF FindOne(reqs[r].user, reqs[r].task) # {}
       THEN Respond(r, reqs[r], 400, "Already joined this task")
       ELSE Goto(r, [reqs[r] EXCEPT !.pc = "requirements"])
  /\ UNCHANGED <<tasks, participants, users, now, sigWrites, chain, escrows>>

\* User.findById and the requirement checks (lines 45-59); followers is what
\* snapchainService.getUserByFid answers: a follower_count, or -1 for null
JoinRequirements(r) ==
  /\ At(r, "join", "requirements")
  /\ LET user == users[reqs[r].user]
         req == reqs[r].tk.requirements
     IN IF req.mustBeVerified /\ ~user.isVerified
          THEN Respond(r, reqs[r], 400, "Must be verified to join this task")
        ELSE IF req.minimumFollowers > 0
          THEN \E followers \in -1..1 :
                 LET q == [reqs[r] EXCEPT !.num = followers] IN
                   IF followers = -1 \/ followers < req.minimumFollowers
                     THEN Respond(r, q, 400, "Must have at least N followers")
                     ELSE Goto(r, [q EXCEPT !.pc = "saveParticipant"])
        ELSE Goto(r, [reqs[r] EXCEPT !.pc = "saveParticipant"])
  /\ UNCHANGED <<tasks, participants, users, now, sigWrites, chain, escrows>>

\* participant.save() of the new document (lines 62-68): the insert fails on
\* the unique index with E11000, which the handler's catch turns into a 500
JoinSaveParticipant(r) ==
  /\ At(r, "join", "saveParticipant")
  /\ IF UniqueIndexAllows(reqs[r].user, reqs[r].task)
       THEN /\ participants' = [participants EXCEPT ![NextId] =
                                  NewParticipant(reqs[r].user, reqs[r].task)]
            /\ Goto(r, [reqs[r] EXCEPT !.pc = "saveTask", !.pid = NextId,
                                       !.wrote = TRUE])
       ELSE /\ Catch(r, reqs[r], "E11000 duplicate key")
            /\ UNCHANGED participants
  /\ UNCHANGED <<tasks, users, now, sigWrites, chain, escrows>>

\* task.currentParticipants += 1; task.save() (lines 71-72): the increment is
\* made on the copy read by findById, and save() $sets the result
JoinSaveTask(r) ==
  /\ At(r, "join", "saveTask")
  /\ LET loaded == reqs[r].tk
         local == Assign(loaded,
                    [currentParticipants |-> loaded.currentParticipants + 1])
     IN tasks' = [tasks EXCEPT ![reqs[r].task] = SaveDoc(@, loaded, local)]
  /\ Respond(r, reqs[r], 201, "Successfully joined task")
  /\ UNCHANGED <<participants, users, now, sigWrites, chain, escrows>>

Join(r) ==
  \/ JoinFindTask(r)
  \/ JoinFindParticipant(r)
  \/ JoinRequirements(r)
  \/ JoinSaveParticipant(r)
  \/ JoinSaveTask(r)

\* ------------------------------------------------ identity provider
\* What the provider answers to one verification: whether the call failed,
\* whether the target handle resolves, and whether the user's fid is in each
\* of the relation sets queried.
ProviderAnswers ==
  [error : BOOLEAN, targetFound : BOOLEAN, inFollowing : BOOLEAN,
   inLikes : BOOLEAN, inRecasts : BOOLEAN, isMember : BOOLEAN,
   isFollower : BOOLEAN]

\* as verifyUserFollowsUser, with a failed call taken as a match
verifyUserFollowsUser_Optimistic(a) ==
  a.error \/ (a.targetFound /\ a.inFollowing)

\* as verifyChannelMembership, with the member list alone
verifyChannelMembership_MembersOnly(a) == ~a.error /\ a.isMember

\* SnapchainService.verify*: every getter catches its error and returns null
\* or [], so a failed call verifies nothing
verifyUserFollowsUser(a) == ~a.error /\ a.targetFound /\ a.inFollowing
verifyCastLike(a) == ~a.error /\ a.inLikes
verifyCastRecast(a) == ~a.error /\ a.inRecasts
verifyChannelMembership(a) == ~a.error /\ (a.isMember \/ a.isFollower)

\* autoVerifyTask(participant): the dispatch on task.taskType
autoVerifyTask(task, a) ==
  CASE task.taskType = "FOLLOW_USER" ->
         task.targetData.userToFollow # Nil /\ verifyUserFollowsUser(a)
    [] task.taskType = "LIKE_CAST" ->
         task.targetData.castHashToLike # Nil /\ verifyCastLike(a)
    [] task.taskType = "RECAST_CAST" ->
         task.targetData.castHashToRecast # Nil /\ verifyCastRecast(a)
    [] task.taskType = "JOIN_CHANNEL" ->
         task.targetData.channelToJoin # Nil /\ verifyChannelMembership(a)
    [] OTHER -> FALSE

\* the task types POST /tasks accepts (tasks.js line 16), and a task of each
\* with its target set
TaskTypes == {"FOLLOW_USER", "LIKE_CAST", "RECAST_CAST", "JOIN_CHANNEL"}

TaskOfType(taskType) ==
  [taskType |-> taskType,
   targetData |-> [userToFollow |-> "target", castHashToLike |-> "target",
                   castHashToRecast |-> "target", channelToJoin |-> "target"]]

\* targetData of a task: the target field of each type in present is set
TargetData(present) ==
  [userToFollow |-> IF "FOLLOW_USER" \in present THEN "target" ELSE Nil,
   castHashToLike |-> IF "LIKE_CAST" \in present THEN "target" ELSE Nil,
   castHashToRecast |-> IF "RECAST_CAST" \in present THEN "target" ELSE Nil,
   channelToJoin |-> IF "JOIN_CHANNEL" \in present THEN "target" ELSE Nil]

\* --------------------------------------------- POST /submit-proof/:taskId
ProofPayloads == {"", "proof"}

\* as SubmitProofFind, without the check of the status
SubmitProofFind_AnyStatus(r) ==
  /\ Free(r)
  /\ \E u \in Users, t \in Tasks, proofData \in ProofPayloads :
       LET q == [Arrive("submitProof", u, t) EXCEPT !.arg = proofData]
           found == FindOne(u, t)
       IN IF proofData = "" THEN Respond(r, q, 400, "Proof data is required")
          ELSE IF found = {} THEN Respond(r, q, 404, "Participant not found")
          ELSE Goto(r, [q EXCEPT !.pc = "saveProof", !.pid = First(found),
                  !.ld = Copy(participants[First(found)],
                              {"proofSubmitted", "proofData", "status",
                               "verificationNotes"}),
                  !.tk = Copy(tasks[t], {"taskType", "targetData"})])
  /\ UNCHANGED <<tasks, participants, users, now, sigWrites, chain, escrows>>

\* express-validator rejects an empty proofData; Participant.findOne({user,
\* task}).populate('task') and the status check (lines 88-104)
SubmitProofFind(r) ==
  /\ Free(r)
  /\ \E u \in Users, t \in Tasks, proofData \in ProofPayloads :
       LET q == [Arrive("submitProof", u, t) EXCEPT !.arg = proofData]
           found == FindOne(u, t)
       IN IF proofData = "" THEN Respond(r, q, 400, "Proof data is required")
          ELSE IF found = {} THEN Respond(r, q, 404, "Participant not found")
          ELSE IF participants[First(found)].status # "PENDING"
            THEN Respond(r, q, 400, "Cannot submit proof for this participant status")
          ELSE Goto(r, [q EXCEPT !.pc = "saveProof", !.pid = First(found),
                  !.ld = Copy(participants[First(found)],
                              {"proofSubmitted", "proofData", "status",
                               "verificationNotes"}),
                  !.tk = Copy(tasks[t], {"taskType", "targetData"})])
  /\ UNCHANGED <<tasks, participants, users, now, sigWrites, chain, escrows>>

\* proofSubmitted = true; proofData = ...; participant.save() (lines 109-112)
SubmitProofSave(r) ==
  /\ At(r, "submitProof", "saveProof")
  /\ LET loaded == reqs[r].ld
         local == Assign(loaded, [proofSubmitted |-> TRUE,
                                  proofData |-> reqs[r].arg])
     IN /\ participants' = [participants EXCEPT ![reqs[r].pid] =
                              SaveDoc(@, loaded, local)]
        /\ Goto(r, [reqs[r] EXCEPT !.pc = "autoVerify", !.ld = local,
                                   !.wrote = TRUE])
  /\ UNCHANGED <<tasks, users, now, sigWrites, chain, escrows>>

\* autoVerifyTask, then, if verified, status = 'VERIFIED' and a second save
\* (lines 115-127)
SubmitProofVerify(r) ==
  /\ At(r, "submitProof", "autoVerify")
  /\ \E verified \in {autoVerifyTask(reqs[r].tk, a) : a \in ProviderAnswers} :
       LET loaded == reqs[r].ld
           local == Assign(loaded,
                      [status |-> "VERIFIED",
                       verificationNotes |-> "Auto-verified via Snapchain API"])
       IN IF verified
            THEN /\ participants' = [participants EXCEPT ![reqs[r].pid] =
                                       SaveDoc(@, loaded, local)]
                 /\ Respond(r, reqs[r], 200, "Proof submitted, autoVerified")
            ELSE /\ UNCHANGED participants
                 /\ Respond(r, reqs[r], 200, "Proof submitted, not verified")
  /\ UNCHANGED <<tasks, users, now, sigWrites, chain, escrows>>

SubmitProof(r) ==
  \/ SubmitProofFind(r)
  \/ SubmitProofSave(r)
  \/ SubmitProofVerify(r)

\* the _ids a caller may name: those of the documents, and one of no document
NamedIds == 1..(Cardinality(Docs) + 1)

\* ------------------------------------------- POST /verify/:participantId
\* as ManualVerifyFind, without the check of the requester
ManualVerifyFind_AnyRequester(r) ==
  /\ Free(r)
  /\ \E u \in Users, id \in NamedIds, approved \in {"approved", "rejected"} :
       LET q == [Arrive("manualVerify", u, 0) EXCEPT !.pid = id, !.arg = approved]
           doc == participants[id]
       IN IF doc = NoDoc THEN Respond(r, q, 404, "Participant not found")
          ELSE IF doc.status # "PENDING"
            THEN Respond(r, q, 400, "Participant not in pending status")
          ELSE Goto(r, [q EXCEPT !.pc = "save",
                  !.ld = Copy(doc, {"status", "verificationNotes"})])
  /\ UNCHANGED <<tasks, participants, users, now, sigWrites, chain, escrows>>

\* Participant.findById(..).populate('task') and the checks (lines 381-398);
\* the handler never reads validationResult
ManualVerifyFind(r) ==
  /\ Free(r)
  /\ \E u \in Users, id \in NamedIds, approved \in {"approved", "rejected"} :
       LET q == [Arrive("manualVerify", u, 0) EXCEPT !.pid = id, !.arg = approved]
           doc == participants[id]
       IN IF doc = NoDoc THEN Respond(r, q, 404, "Participant not found")
          ELSE IF tasks[doc.task].creator # u
            THEN Respond(r, q, 403, "Not authorized")
          ELSE IF doc.status # "PENDING"
            THEN Respond(r, q, 400, "Participant not in pending status")
          ELSE Goto(r, [q EXCEPT !.pc = "save",
                  !.ld = Copy(doc, {"status", "verificationNotes"})])
  /\ UNCHANGED <<tasks, participants, users, now, sigWrites, chain, escrows>>

\* status = approved ? 'VERIFIED' : 'REJECTED'; verificationNotes = notes || ''
\* (lines 401-409)
ManualVerifySave(r) ==
  /\ At(r, "manualVerify", "save")
  /\ LET loaded == reqs[r].ld
         local == Assign(loaded,
                    [status |-> IF reqs[r].arg = "approved" THEN "VERIFIED"
                                ELSE "REJECTED",
                     verificationNotes |-> ""])
     IN participants' = [participants EXCEPT ![reqs[r].pid] =
                           SaveDoc(@, loaded, local)]
  /\ Respond(r, [reqs[r] EXCEPT !.wrote = TRUE],
             200, "Participant " \o reqs[r].arg \o " successfully")
  /\ UNCHANGED <<tasks, users, now, sigWrites, chain, escrows>>

ManualVerify(r) ==
  \/ ManualVerifyFind(r)
  \/ ManualVerifySave(r)

\* ----------------------------------------- POST /re-verify/:participantId
\* Participant.findById(..).populate('task').populate('user') and the creator
\* check (lines 418-431); the status is not looked at
ReVerifyFind(r) ==
  /\ Free(r)
  /\ \E u \in Users, id \in NamedIds :
       LET q == [Arrive("reVerify", u, 0) EXCEPT !.pid = id]
           doc == participants[id]
       IN IF doc = NoDoc THEN Respond(r, q, 404, "Participant not found")
          ELSE IF tasks[doc.task].creator # u
            THEN Respond(r, q, 403, "Not authorized")
          ELSE Goto(r, [q EXCEPT !.pc = "autoVerify",
                  !.ld = Copy(doc, {"status", "verificationNotes"}),
                  !.tk = Copy(tasks[doc.task], {"taskType", "targetData"})])
  /\ UNCHANGED <<tasks, participants, users, now, sigWrites, chain, escrows>>

\* as ReVerifySave, with the status switched between VERIFIED and PENDING
ReVerifySave_Switched(doc, loaded) ==
  SaveDoc(doc, loaded,
          Assign(loaded,
                 [status |-> IF loaded.status = "VERIFIED" THEN "PENDING"
                             ELSE "VERIFIED",
                  verificationNotes |-> "Re-verified via Snapchain API"]))

\* status = 'VERIFIED', verificationNotes and participant.save() of a
\* verified re-verification (lines 437-440): the stored document afterwards
ReVerifySave(doc, loaded) ==
  SaveDoc(doc, loaded,
          Assign(loaded,
                 [status |-> "VERIFIED",
                  verificationNotes |-> "Re-verified via Snapchain API"]))

\* autoVerifyTask, then, if verified, status = 'VERIFIED' and save
\* (lines 434-446)
ReVerifyVerify(r) ==
  /\ At(r, "reVerify", "autoVerify")
  /\ \E verified \in {autoVerifyTask(reqs[r].tk, a) : a \in ProviderAnswers} :
       IF verified
            THEN /\ participants' = [participants EXCEPT ![reqs[r].pid] =
                                       ReVerifySave(@, reqs[r].ld)]
                 /\ Respond(r, [reqs[r] EXCEPT !.wrote = TRUE],
                            200, "Re-verification completed, verified")
            ELSE /\ UNCHANGED participants
                 /\ Respond(r, reqs[r], 200, "Re-verification completed, not verified")
  /\ UNCHANGED <<tasks, users, now, sigWrites, chain, escrows>>

ReVerify(r) ==
  \/ ReVerifyFind(r)
  \/ ReVerifyVerify(r)

\* ---------------------------------------------------- reward ledger
\* ContractService.generateClaimSignature: the wallet's signature of
\* keccak256(abi.encodePacked(taskId, developerAddress, rewardAmount)); the
\* signature of a message is a function of the message and the key
\* the bytes of x, most significant first, in the given width
RECURSIVE Bytes(_, _)
Bytes(x, width) ==
  IF width = 0 THEN <<>> ELSE Append(Bytes(x \div 256, width - 1), x % 256)

\* ethers.solidityPacked(['uint256', 'address', 'uint256'], [..]): 32, 20 and
\* 32 bytes, one after the other
solidityPacked(taskId, developerAddress, rewardAmount) ==
  Bytes(taskId, 32) \o Bytes(developerAddress, 20) \o Bytes(rewardAmount, 32)

\* as generateClaimSignature, of the task and the claimant alone
generateClaimSignature_NoAmount(taskId, developerAddress, rewardAmount) ==
  Bytes(taskId, 32) \o Bytes(developerAddress, 20)

\* keccak256 of the packed tuple and wallet.signMessage of the hash (lines
\* 153-159): the hash is taken to have no collisions and the signature of a
\* message under the wallet's key to be one value, so that a signature stands
\* for the bytes that were signed
generateClaimSignature(taskId, developerAddress, rewardAmount) ==
  solidityPacked(taskId, developerAddress, rewardAmount)

\* what a ledger call does: it answers, or it throws
HasClaimedAnswers == {"true", "false", "threw"}
SignOutcomes == {"signed", "threw"}

\* ------------------------------------------------ gas sponsorship
\* What the paymaster does with one request: the service is not enabled, the
\* POST throws, the reply carries an error, the reply carries no result, the
\* reply carries a result without the fields expected, the reply is well formed.
PaymasterOutcomes ==
  {"notEnabled", "unreachable", "rpcError", "noResult", "malformedResult", "ok"}

\* SponsoredGasService.getPaymasterAndData: null unless the reply has a result
getPaymasterAndData(o) ==
  CASE o = "notEnabled" -> "null"
    [] o = "unreachable" -> "null"
    [] o = "rpcError" -> "null"
    [] o = "noResult" -> "null"
    [] o = "malformedResult" -> "incomplete"
    [] o = "ok" -> "complete"

\* SponsoredGasService.prepareSponsoredClaim: the value of .sponsored
prepareSponsoredClaim(o) ==
  IF o = "notEnabled" THEN FALSE
  ELSE getPaymasterAndData(o) # "null"

\* --------------------------------------------------- POST /claim/:taskId
\* as RequestClaimFind, without the check of claimedAt
RequestClaimFind_ClaimedAtUnchecked(r) ==
  /\ Free(r)
  /\ \E u \in Users, t \in Tasks :
       LET q == Arrive("requestClaim", u, t)
           found == FindOne(u, t)
       IN IF found = {} THEN Respond(r, q, 404, "Participant not found")
          ELSE IF participants[First(found)].status # "VERIFIED"
            THEN Respond(r, q, 400, "Task not verified yet")
          ELSE Goto(r, [q EXCEPT !.pc = "hasClaimed", !.pid = First(found),
                  !.ld = Copy(participants[First(found)],
                              {"claimSignature", "rewardAmount"}),
                  !.tk = Copy(tasks[t], {"contractTaskId", "rewardPerParticipant"})])
  /\ UNCHANGED <<tasks, participants, users, now, sigWrites, chain, escrows>>

\* Participant.findOne({user, task}).populate('task') and the checks
\* (lines 192-207)
RequestClaimFind(r) ==
  /\ Free(r)
  /\ \E u \in Users, t \in Tasks :
       LET q == Arrive("requestClaim", u, t)
           found == FindOne(u, t)
       IN IF found = {} THEN Respond(r, q, 404, "Participant not found")
          ELSE IF participants[First(found)].status # "VERIFIED"
            THEN Respond(r, q, 400, "Task not verified yet")
          ELSE IF participants[First(found)].claimedAt # NoDate
            THEN Respond(r, q, 400, "Reward already claimed")
          ELSE Goto(r, [q EXCEPT !.pc = "hasClaimed", !.pid = First(found),
                  !.ld = Copy(participants[First(found)],
                              {"claimSignature", "rewardAmount"}),
                  !.tk = Copy(tasks[t], {"contractTaskId", "rewardPerParticipant"})])
  /\ UNCHANGED <<tasks, participants, users, now, sigWrites, chain, escrows>>

\* as RequestClaimHasClaimed, without the check of the answer
RequestClaimHasClaimed_Unchecked(r) ==
  /\ At(r, "requestClaim", "hasClaimed")
  /\ \E answer \in HasClaimedAnswers :
       LET q == [reqs[r] EXCEPT !.hc = answer] IN
         IF answer = "threw" THEN Catch(r, q, "hasDevClaimed failed")
         ELSE Goto(r, [q EXCEPT !.pc = "sign"])
  /\ UNCHANGED <<tasks, participants, users, now, sigWrites, chain, escrows>>

\* User.findById, contractService.hasUserClaimed and the check of its answer
\* (lines 210-220)
RequestClaimHasClaimed(r) ==
  /\ At(r, "requestClaim", "hasClaimed")
  /\ \E answer \in HasClaimedAnswers :
       LET q == [reqs[r] EXCEPT !.hc = answer] IN
         CASE answer = "threw" -> Catch(r, q, "hasDevClaimed failed")
           [] answer = "true" ->
                Respond(r, q, 400, "Reward already claimed on blockchain")
           [] answer = "false" -> Goto(r, [q EXCEPT !.pc = "sign"])
  /\ UNCHANGED <<tasks, participants, users, now, sigWrites, chain, escrows>>

\* as RequestClaimSign, with the error of the signer logged and passed over
RequestClaimSign_Swallowed(r) ==
  /\ At(r, "requestClaim", "sign")
  /\ \E outcome \in SignOutcomes :
       IF outcome = "threw"
         THEN Goto(r, [reqs[r] EXCEPT !.pc = "sponsor",
                                      !.err = "signMessage failed"])
         ELSE Goto(r, [reqs[r] EXCEPT !.pc = "sponsor",
                 !.sig = generateClaimSignature(
                           reqs[r].tk.contractTaskId,
                           users[reqs[r].user].walletAddress,
                           reqs[r].tk.rewardPerParticipant)])
  /\ UNCHANGED <<tasks, participants, users, now, sigWrites, chain, escrows>>

\* contractService.generateClaimSignature (lines 223-227)
RequestClaimSign(r) ==
  /\ At(r, "requestClaim", "sign")
  /\ \E outcome \in SignOutcomes :
       IF outcome = "threw"
         THEN Catch(r, reqs[r], "signMessage failed")
         ELSE Goto(r, [reqs[r] EXCEPT !.pc = "sponsor",
                 !.sig = generateClaimSignature(
                           reqs[r].tk.contractTaskId,
                           users[reqs[r].user].walletAddress,
                           reqs[r].tk.rewardPerParticipant)])
  /\ UNCHANGED <<tasks, participants, users, now, sigWrites, chain, escrows>>

\* as RequestClaimSponsor, with an unreachable paymaster ending the request
RequestClaimSponsor_Blocking(r) ==
  /\ At(r, "requestClaim", "sponsor")
  /\ \E o \in PaymasterOutcomes :
       IF o = "unreachable"
         THEN Catch(r, [reqs[r] EXCEPT !.sp = o], "paymaster unreachable")
         ELSE Goto(r, [reqs[r] EXCEPT !.pc = "save", !.sp = o])
  /\ UNCHANGED <<tasks, participants, users, now, sigWrites, chain, escrows>>

\* sponsoredGasService.prepareSponsoredClaim (lines 230-237)
RequestClaimSponsor(r) ==
  /\ At(r, "requestClaim", "sponsor")
  /\ \E o \in PaymasterOutcomes : Goto(r, [reqs[r] EXCEPT !.pc = "save", !.sp = o])
  /\ UNCHANGED <<tasks, participants, users, now, sigWrites, chain, escrows>>

\* as RequestClaimSave, with rewardAmount left as it was
RequestClaimSave_AmountUnsaved(r) ==
  /\ At(r, "requestClaim", "save")
  /\ LET loaded == reqs[r].ld
         local == Assign(loaded, [claimSignature |-> reqs[r].sig])
     IN /\ participants' = [participants EXCEPT ![reqs[r].pid] =
                              SaveDoc(@, loaded, local)]
        /\ sigWrites' = [sigWrites EXCEPT ![reqs[r].pid] =
                           IF "claimSignature" \in Modified(loaded, local)
                             THEN @ + 1 ELSE @]
        /\ Respond(r, [reqs[r] EXCEPT !.wrote = Modified(loaded, local) # {}],
                   200,
                   IF prepareSponsoredClaim(reqs[r].sp)
                     THEN "Claim signature generated, sponsoredGas enabled"
                     ELSE "Claim signature generated, sponsoredGas not enabled")
  /\ UNCHANGED <<tasks, users, now, chain, escrows>>

\* claimSignature = signature; rewardAmount = task.rewardPerParticipant;
\* participant.save(); res.json(response) (lines 240-274)
RequestClaimSave(r) ==
  /\ At(r, "requestClaim", "save")
  /\ LET loaded == reqs[r].ld
         local == Assign(loaded,
                    [claimSignature |-> reqs[r].sig,
                     rewardAmount |-> reqs[r].tk.rewardPerParticipant])
     IN /\ participants' = [participants EXCEPT ![reqs[r].pid] =
                              SaveDoc(@, loaded, local)]
        /\ sigWrites' = [sigWrites EXCEPT ![reqs[r].pid] =
                           IF "claimSignature" \in Modified(loaded, local)
                             THEN @ + 1 ELSE @]
        /\ Respond(r, [reqs[r] EXCEPT !.wrote = Modified(loaded, local) # {}],
                   200,
                   IF prepareSponsoredClaim(reqs[r].sp)
                     THEN "Claim signature generated, sponsoredGas enabled"
                     ELSE "Claim signature generated, sponsoredGas not enabled")
  /\ UNCHANGED <<tasks, users, now, chain, escrows>>

RequestClaim(r) ==
  \/ RequestClaimFind(r)
  \/ RequestClaimHasClaimed(r)
  \/ RequestClaimSign(r)
  \/ RequestClaimSponsor(r)
  \/ RequestClaimSave(r)

\* ------------------------------------------- POST /confirm-claim/:taskId
\* the handlers that have yet to read the clock
ClockReadsPending ==
  Cardinality({r \in Reqs : reqs[r].op = "confirmClaim"
                             /\ reqs[r].pc \in {"findUser", "saveParticipant"}})

\* Participant.findOne({user, task}) (lines 285-294); the handler never reads
\* validationResult
ConfirmClaimFind(r) ==
  /\ Free(r)
  /\ now + ClockReadsPending < MaxTime
  /\ \E u \in Users, t \in Tasks, transactionHash \in TxHashes :
       LET q == [Arrive("confirmClaim", u, t) EXCEPT !.arg = transactionHash]
           found == FindOne(u, t)
       IN IF found = {} THEN Respond(r, q, 404, "Participant not found")
          ELSE Goto(r, [q EXCEPT !.pc = "findUser", !.pid = First(found),
                  !.ld = Copy(participants[First(found)],
                              {"status", "transactionHash", "rewardAmount"})])
  /\ UNCHANGED <<tasks, participants, users, now, sigWrites, chain, escrows>>

\* User.findById (line 296): the copy of the user the sum is later made from
ConfirmClaimFindUser(r) ==
  /\ At(r, "confirmClaim", "findUser")
  /\ Goto(r, [reqs[r] EXCEPT !.pc = "saveParticipant",
                             !.num = users[reqs[r].user].totalRewardsEarned])
  /\ UNCHANGED <<tasks, participants, users, now, sigWrites, chain, escrows>>

\* as ConfirmClaimSave, with rewardAmount cleared
ConfirmClaimSave_ClearsReward(r) ==
  /\ At(r, "confirmClaim", "saveParticipant")
  /\ now' = now + 1
  /\ LET loaded == reqs[r].ld
         local == Assign(loaded, [status |-> "CLAIMED", claimedAt |-> now',
                                  transactionHash |-> reqs[r].arg,
                                  rewardAmount |-> 0])
     IN participants' = [participants EXCEPT ![reqs[r].pid] =
                           SaveDoc(@, loaded, local)]
  /\ Goto(r, [reqs[r] EXCEPT !.pc = "updateUser", !.wrote = TRUE])
  /\ UNCHANGED <<tasks, users, sigWrites, chain, escrows>>

\* as ConfirmClaimSave, without the transactionHash
ConfirmClaimSave_HashDropped(r) ==
  /\ At(r, "confirmClaim", "saveParticipant")
  /\ now' = now + 1
  /\ LET loaded == reqs[r].ld
         local == Assign(loaded, [status |-> "CLAIMED", claimedAt |-> now'])
     IN participants' = [participants EXCEPT ![reqs[r].pid] =
                           SaveDoc(@, loaded, local)]
  /\ Goto(r, [reqs[r] EXCEPT !.pc = "updateUser", !.wrote = TRUE])
  /\ UNCHANGED <<tasks, users, sigWrites, chain, escrows>>

\* status = 'CLAIMED'; claimedAt = new Date(); transactionHash = ...;
\* participant.save() (lines 299-302)
ConfirmClaimSave(r) ==
  /\ At(r, "confirmClaim", "saveParticipant")
  /\ now' = now + 1
  /\ LET loaded == reqs[r].ld
         local == Assign(loaded, [status |-> "CLAIMED", claimedAt |-> now',
                                  transactionHash |-> reqs[r].arg])
     IN participants' = [participants EXCEPT ![reqs[r].pid] =
                           SaveDoc(@, loaded, local)]
  /\ Goto(r, [reqs[r] EXCEPT !.pc = "updateUser", !.wrote = TRUE])
  /\ UNCHANGED <<tasks, users, sigWrites, chain, escrows>>

\* as ConfirmClaimUpdateUser, with the update made on the task's creator
ConfirmClaimUpdateUser_OfCreator(r) ==
  /\ At(r, "confirmClaim", "updateUser")
  /\ users' = [users EXCEPT ![tasks[reqs[r].task].creator] =
       [@ EXCEPT !.totalTasksCompleted = @ + 1,
                 !.reputation = @ + ReputationIncrement,
                 !.totalRewardsEarned = reqs[r].num + reqs[r].ld.rewardAmount]]
  /\ Respond(r, reqs[r], 200, "Claim confirmed successfully")
  /\ UNCHANGED <<tasks, participants, now, sigWrites, chain, escrows>>

\* User.findByIdAndUpdate: $inc of the two counters and $set of the sum made
\* from the copies read before (lines 305-318)
ConfirmClaimUpdateUser(r) ==
  /\ At(r, "confirmClaim", "updateUser")
  /\ users' = [users EXCEPT ![reqs[r].user] =
       [@ EXCEPT !.totalTasksCompleted = @ + 1,
                 !.reputation = @ + ReputationIncrement,
                 !.totalRewardsEarned = reqs[r].num + reqs[r].ld.rewardAmount]]
  /\ Respond(r, reqs[r], 200, "Claim confirmed successfully")
  /\ UNCHANGED <<tasks, participants, now, sigWrites, chain, escrows>>

ConfirmClaim(r) ==
  \/ ConfirmClaimFind(r)
  \/ ConfirmClaimFindUser(r)
  \/ ConfirmClaimSave(r)
  \/ ConfirmClaimUpdateUser(r)

\* ------------------------------------------------------- Task documents
NoTaskId == 0       \* null, in contractTaskId; the contract counts from 1
Removed == [removed |-> TRUE]   \* a document findByIdAndDelete has removed

\* the _ids POST /tasks can give out, after those of the tasks in Tasks
TaskIds == 1..(Cardinality(Tasks) + MaxTasks)

TaskDocs == {t \in DOMAIN tasks : tasks[t] \notin {NoDoc, Removed}}

\* the escrow of a live task: one call, confirmed, of the task's funding
EscrowsOfLiveTasks ==
  [t \in TaskIds |->
     IF t \in Tasks
       THEN <<[maxParticipants |-> tasks[t].maxParticipants,
               balance |-> tasks[t].totalFunding, value |-> tasks[t].totalFunding,
               result |-> "confirmed"]>>
       ELSE <<>>]

NextTaskId == Cardinality({t \in DOMAIN tasks : tasks[t] # NoDoc}) + 1

\* new Task({...}) (tasks.js lines 85-104) with the defaults of models/Task.js;
\* the embedded participants array is written by no route
NewTask(u, maxP) ==
  [creator |-> u, status |-> "DRAFT", taskType |-> "FOLLOW_USER",
   targetData |-> [userToFollow |-> "target", castHashToLike |-> Nil,
                   castHashToRecast |-> Nil, channelToJoin |-> Nil],
   rewardPerParticipant |-> RewardPerParticipant, maxParticipants |-> maxP,
   currentParticipants |-> 0, totalFunding |-> RewardPerParticipant * maxP,
   contractTaskId |-> NoTaskId, expiresAt |-> MaxTime,
   requirements |-> [minimumFollowers |-> 0, mustBeVerified |-> FALSE],
   participants |-> <<>>, transactionHash |-> Nil]

\* ------------------------------------------------------- POST /tasks
\* what snapchainService.getUserByUsername finds for targetData.userToFollow
TargetLookups == {"missing", "notFound", "found"}

\* what contractService.createTaskOnChain does: the escrow is confirmed; the
\* call throws before the transaction; the transaction is mined and the
\* TaskCreated event is not found
EscrowOutcomes == {"confirmed", "threw", "noEvent"}

\* the creates that have yet to insert their document
CreatesPending ==
  Cardinality({r \in Reqs : reqs[r].op = "create" /\ reqs[r].pc = "saveDraft"})

\* validation of the target and new Task({...}) (lines 21-104)
CreateValidate(r) ==
  /\ Free(r)
  /\ NextTaskId + CreatesPending \in DOMAIN tasks
  /\ \E u \in Users, maxP \in 1..NumUsers, lookup \in TargetLookups :
       LET q == Arrive("create", u, 0) IN
         IF lookup = "missing"
           THEN Respond(r, q, 400, "User to follow is required")
         ELSE IF lookup = "notFound"
           THEN Respond(r, q, 400, "Target user not found on Farcaster")
         ELSE Goto(r, [q EXCEPT !.pc = "saveDraft", !.ld = NewTask(u, maxP)])
  /\ UNCHANGED <<tasks, participants, users, now, sigWrites, chain, escrows>>

\* task.save() of the new document (line 106)
CreateSaveDraft(r) ==
  /\ At(r, "create", "saveDraft")
  /\ tasks' = [tasks EXCEPT ![NextTaskId] = reqs[r].ld]
  /\ Goto(r, [reqs[r] EXCEPT !.pc = "escrow", !.task = NextTaskId,
                             !.wrote = TRUE])
  /\ UNCHANGED <<participants, users, now, sigWrites, chain, escrows>>

\* the digits of x in base 10, most significant first, in the given width
RECURSIVE Digits(_, _)
Digits(x, width) ==
  IF width = 0 THEN <<>> ELSE Append(Digits(x \div 10, width - 1), x % 10)

\* a digit string without its trailing zeros
RECURSIVE StripZeros(_)
StripZeros(ds) ==
  IF ds # <<>> /\ ds[Len(ds)] = 0 THEN StripZeros(SubSeq(ds, 1, Len(ds) - 1))
  ELSE ds

\* the value of a digit string
RECURSIVE DigitsValue(_)
DigitsValue(ds) ==
  IF ds = <<>> THEN 0
  ELSE 10 * DigitsValue(SubSeq(ds, 1, Len(ds) - 1)) + ds[Len(ds)]

\* as NumberToString, with two digits after the point
NumberToString_TwoDecimals(totalFunding) ==
  [whole |-> totalFunding \div EtherUnit,
   frac |-> StripZeros(SubSeq(Digits(totalFunding % EtherUnit, FractionDigits),
                              1, 2))]

\* (parseFloat(totalFunding) / 1e18).toString() (tasks.js line 87 and
\* contractService.js line 74): the decimal text of the amount in ether, its
\* integer part and the digits after the point, with no trailing zero. A
\* Number carries 15 significant decimal digits and prints them back; the
\* amounts here have at most FractionDigits + 1.
NumberToString(totalFunding) ==
  [whole |-> totalFunding \div EtherUnit,
   frac |-> StripZeros(Digits(totalFunding % EtherUnit, FractionDigits))]

\* ethers.parseEther: the text of an amount in ether, in the smallest unit
parseEther(text) ==
  text.whole * EtherUnit
    + DigitsValue(text.frac \o [i \in 1..(FractionDigits - Len(text.frac)) |-> 0])

\* the balances of the signer that provider.getBalance may answer for a task
\* of the given funding
Balances(totalFunding) == {totalFunding - 1, totalFunding}

\* contractService.createTaskOnChain (lines 69-130): the balance check, then
\* the transaction; what the call answers and the value it locked
createTaskOnChain(maxParticipants, totalFundingEth, balance, outcome) ==
  LET requiredAmount == parseEther(totalFundingEth) IN
    IF balance < requiredAmount
      THEN [result |-> "insufficient", value |-> 0,
            error |-> "Insufficient balance"]
    ELSE IF outcome = "threw"
      THEN [result |-> "threw", value |-> 0, error |-> "createTask failed"]
    ELSE IF outcome = "noEvent"
      THEN [result |-> "noEvent", value |-> requiredAmount,
            error |-> "TaskCreated event not found"]
    ELSE [result |-> "confirmed", value |-> requiredAmount, error |-> ""]

\* the call of createTaskOnChain by the create handler r, and its record
EscrowCall(r, balance, outcome) ==
  LET call == createTaskOnChain(reqs[r].ld.maxParticipants,
                                NumberToString(reqs[r].ld.totalFunding),
                                balance, outcome)
  IN [call EXCEPT !.error = IF call.result = "confirmed" THEN reqs[r].err ELSE @]

\* as CreateEscrow, with the error of the ledger logged and passed over
CreateEscrow_Ignored(r) ==
  /\ At(r, "create", "escrow")
  /\ \E balance \in Balances(reqs[r].ld.totalFunding), outcome \in EscrowOutcomes :
       LET call == EscrowCall(r, balance, outcome) IN
         /\ chain' = IF call.result \in {"confirmed", "noEvent"} THEN chain + 1
                      ELSE chain
         /\ escrows' = [escrows EXCEPT ![reqs[r].task] =
                          Append(@, [maxParticipants |-> reqs[r].ld.maxParticipants,
                                     balance |-> balance, value |-> call.value,
                                     result |-> call.result])]
         /\ IF call.result = "confirmed"
              THEN Goto(r, [reqs[r] EXCEPT !.pc = "activate", !.num = chain'])
              ELSE Goto(r, [reqs[r] EXCEPT !.pc = "activate", !.num = NoTaskId,
                                           !.err = call.error])
  /\ UNCHANGED <<tasks, participants, users, now, sigWrites>>

\* contractService.createTaskOnChain (lines 109-113, contractService.js 69-130)
CreateEscrow(r) ==
  /\ At(r, "create", "escrow")
  /\ \E balance \in Balances(reqs[r].ld.totalFunding), outcome \in EscrowOutcomes :
       LET call == EscrowCall(r, balance, outcome) IN
         /\ chain' = IF call.result \in {"confirmed", "noEvent"} THEN chain + 1
                      ELSE chain
         /\ escrows' = [escrows EXCEPT ![reqs[r].task] =
                          Append(@, [maxParticipants |-> reqs[r].ld.maxParticipants,
                                     balance |-> balance, value |-> call.value,
                                     result |-> call.result])]
         /\ IF call.result = "confirmed"
              THEN Goto(r, [reqs[r] EXCEPT !.pc = "activate", !.num = chain'])
              ELSE Goto(r, [reqs[r] EXCEPT !.pc = "delete", !.err = call.error])
  /\ UNCHANGED <<tasks, participants, users, now, sigWrites>>

\* what a write of the store does inside the try of POST /tasks: it is
\* applied, or it throws and the catch (contractError) takes over
StoreOutcomes == {"ok", "threw"}

\* contractTaskId, transactionHash, status = 'ACTIVE'; task.save()
\* (lines 115-118)
CreateActivate(r) ==
  /\ At(r, "create", "activate")
  /\ \E outcome \in StoreOutcomes :
       IF outcome = "threw"
         THEN /\ UNCHANGED tasks
              /\ Goto(r, [reqs[r] EXCEPT !.pc = "delete",
                                         !.err = "task.save failed"])
         ELSE /\ LET loaded == reqs[r].ld
                     local == Assign(loaded, [contractTaskId |-> reqs[r].num,
                                              transactionHash |-> "0xescrow",
                                              status |-> "ACTIVE"])
                 IN tasks' = [tasks EXCEPT ![reqs[r].task] =
                                SaveDoc(@, loaded, local)]
              /\ Goto(r, [reqs[r] EXCEPT !.pc = "updateUser"])
  /\ UNCHANGED <<participants, users, now, sigWrites, chain, escrows>>

\* User.findByIdAndUpdate: $inc totalTasksCreated, and the response
\* (lines 121-135)
CreateUpdateUser(r) ==
  /\ At(r, "create", "updateUser")
  /\ \E outcome \in StoreOutcomes :
       IF outcome = "threw"
         THEN /\ UNCHANGED users
              /\ Goto(r, [reqs[r] EXCEPT !.pc = "delete",
                                         !.err = "findByIdAndUpdate failed"])
         ELSE /\ users' = [users EXCEPT
                             ![reqs[r].user].totalTasksCreated = @ + 1]
              /\ Respond(r, reqs[r], 201,
                         "Task created successfully on Base Sepolia")
  /\ UNCHANGED <<tasks, participants, now, sigWrites, chain, escrows>>

\* as CreateDelete, without the findByIdAndDelete
CreateDelete_Skipped(r) ==
  /\ At(r, "create", "delete")
  /\ Respond(r, reqs[r], 500, "Failed to create task on blockchain")
  /\ UNCHANGED <<tasks, participants, users, now, sigWrites, chain, escrows>>

\* as CreateDelete, with the escrow called again
CreateDelete_Retried(r) ==
  /\ At(r, "create", "delete")
  /\ Goto(r, [reqs[r] EXCEPT !.pc = "escrow"])
  /\ UNCHANGED <<tasks, participants, users, now, sigWrites, chain, escrows>>

\* catch (contractError): Task.findByIdAndDelete and the response
\* (lines 136-141)
CreateDelete(r) ==
  /\ At(r, "create", "delete")
  /\ tasks' = [tasks EXCEPT ![reqs[r].task] = Removed]
  /\ Respond(r, reqs[r], 500, "Failed to create task on blockchain")
  /\ UNCHANGED <<participants, users, now, sigWrites, chain, escrows>>

Create(r) ==
  \/ CreateValidate(r)
  \/ CreateSaveDraft(r)
  \/ CreateEscrow(r)
  \/ CreateActivate(r)
  \/ CreateUpdateUser(r)
  \/ CreateDelete(r)

\* task.save() of a document read before: nothing is sent when no path is
\* modified; the update of a document that is gone throws
SaveTask(r, local) ==
  LET loaded == reqs[r].ld
      t == reqs[r].task
  IN IF Modified(loaded, local) = {} THEN "unmodified"
     ELSE IF tasks[t] = Removed THEN "notFound"
     ELSE "saved"

\* ------------------------------------------------------ PUT /tasks/:id
\* Task.findById and the checks (lines 196-210)
UpdateFind(r) ==
  /\ Free(r)
  /\ \E u \in Users, t \in DOMAIN tasks, expiresAt \in {1, MaxTime} :
       LET q == [Arrive("update", u, t) EXCEPT !.num = expiresAt] IN
         IF t \notin TaskDocs THEN Respond(r, q, 404, "Task not found")
         ELSE IF tasks[t].creator # u THEN Respond(r, q, 403, "Not authorized")
         ELSE IF tasks[t].status # "DRAFT"
           THEN Respond(r, q, 400, "Cannot update active task")
         ELSE Goto(r, [q EXCEPT !.pc = "save",
                                !.ld = Copy(tasks[t], {"expiresAt"})])
  /\ UNCHANGED <<tasks, participants, users, now, sigWrites, chain, escrows>>

\* as UpdateSave, with maxParticipants assigned as well
UpdateSave_Resized(r) ==
  /\ At(r, "update", "save")
  /\ LET local == Assign(reqs[r].ld,
                    [expiresAt |-> reqs[r].num,
                     maxParticipants |-> tasks[reqs[r].task].maxParticipants + 1])
         saved == SaveTask(r, local)
     IN /\ tasks' = IF saved = "saved"
                      THEN [tasks EXCEPT ![reqs[r].task] =
                              SaveDoc(@, reqs[r].ld, local)]
                      ELSE tasks
        /\ IF saved = "notFound"
             THEN Catch(r, reqs[r], "DocumentNotFoundError")
             ELSE Respond(r, [reqs[r] EXCEPT !.wrote = (saved = "saved")],
                          200, "Task updated")
  /\ UNCHANGED <<participants, users, now, sigWrites, chain, escrows>>

\* the assignments from req.body and task.save() (lines 212-222)
UpdateSave(r) ==
  /\ At(r, "update", "save")
  /\ LET local == Assign(reqs[r].ld, [expiresAt |-> reqs[r].num])
         saved == SaveTask(r, local)
     IN /\ tasks' = IF saved = "saved"
                      THEN [tasks EXCEPT ![reqs[r].task] =
                              SaveDoc(@, reqs[r].ld, local)]
                      ELSE tasks
        /\ IF saved = "notFound"
             THEN Catch(r, reqs[r], "DocumentNotFoundError")
             ELSE Respond(r, [reqs[r] EXCEPT !.wrote = (saved = "saved")],
                          200, "Task updated")
  /\ UNCHANGED <<participants, users, now, sigWrites, chain, escrows>>

Update(r) == UpdateFind(r) \/ UpdateSave(r)

\* --------------------------------------------------- DELETE /tasks/:id
\* as CancelFind, without the check of the requester
CancelFind_AnyRequester(r) ==
  /\ Free(r)
  /\ \E u \in Users, t \in DOMAIN tasks :
       LET q == Arrive("cancel", u, t) IN
         IF t \notin TaskDocs THEN Respond(r, q, 404, "Task not found")
         ELSE IF \E k \in DOMAIN tasks[t].participants :
                   tasks[t].participants[k].status = "CLAIMED"
           THEN Respond(r, q, 400, "Cannot cancel task with claimed rewards")
         ELSE Goto(r, [q EXCEPT !.pc = "save",
                                !.ld = Copy(tasks[t], {"status"})])
  /\ UNCHANGED <<tasks, participants, users, now, sigWrites, chain, escrows>>

\* Task.findById and the checks (lines 231-245); the claimed rewards are
\* looked for in the task's embedded participants array
CancelFind(r) ==
  /\ Free(r)
  /\ \E u \in Users, t \in DOMAIN tasks :
       LET q == Arrive("cancel", u, t) IN
         IF t \notin TaskDocs THEN Respond(r, q, 404, "Task not found")
         ELSE IF tasks[t].creator # u THEN Respond(r, q, 403, "Not authorized")
         ELSE IF \E k \in DOMAIN tasks[t].participants :
                   tasks[t].participants[k].status = "CLAIMED"
           THEN Respond(r, q, 400, "Cannot cancel task with claimed rewards")
         ELSE Goto(r, [q EXCEPT !.pc = "save",
                                !.ld = Copy(tasks[t], {"status"})])
  /\ UNCHANGED <<tasks, participants, users, now, sigWrites, chain, escrows>>

\* task.status = 'CANCELLED'; task.save() (lines 247-250)
CancelSave(r) ==
  /\ At(r, "cancel", "save")
  /\ LET local == Assign(reqs[r].ld, [status |-> "CANCELLED"])
         saved == SaveTask(r, local)
     IN /\ tasks' = IF saved = "saved"
                      THEN [tasks EXCEPT ![reqs[r].task] =
                              SaveDoc(@, reqs[r].ld, local)]
                      ELSE tasks
        /\ IF saved = "notFound"
             THEN Catch(r, reqs[r], "DocumentNotFoundError")
             ELSE Respond(r, [reqs[r] EXCEPT !.wrote = (saved = "saved")],
                          200, "Task cancelled successfully")
  /\ UNCHANGED <<participants, users, now, sigWrites, chain, escrows>>

Cancel(r) == CancelFind(r) \/ CancelSave(r)

\* ----------------------------------------------------- specifications
\* the store after registration of the users, creation of one task and the
\* joins of the users in Joined, in the order of their ids
StoreAfterJoins(Joined) ==
  /\ tasks = [t \in Tasks |->
               [ActiveTask(NumUsers, MaxTime, FALSE, 0)
                  EXCEPT !.currentParticipants = Cardinality(Joined)]]
  /\ participants =
       [i \in PartIds |->
          IF i <= Cardinality(Joined)
            THEN NewParticipant(CHOOSE u \in Joined :
                                  Cardinality({v \in Joined : v <= u}) = i,
                                CHOOSE t \in Tasks : TRUE)
            ELSE NoDoc]
  /\ users = [u \in Users |-> NewUser(u)]

\* the participant lifecycle, from the joins on
Init ==
  /\ StoreAfterJoins(Users \ {Creator})
  /\ reqs = [r \in Reqs |-> Idle]
  /\ last = NoResponse
  /\ now = 0
  /\ sigWrites = [i \in PartIds |-> 0]
  /\ chain = Cardinality(Tasks)
  /\ escrows = EscrowsOfLiveTasks

Next ==
  \E r \in Reqs :
    \/ SubmitProof(r)
    \/ ManualVerify(r)
    \/ ReVerify(r)
    \/ RequestClaim(r)
    \/ ConfirmClaim(r)

Spec == Init /\ [][Next]_vars

\* the participant lifecycle with the requests served one after the other
SeqNext ==
  \E r \in Reqs :
    /\ \A s \in Reqs \ {r} : Free(s)
    /\ \/ SubmitProof(r)
       \/ ManualVerify(r)
       \/ ReVerify(r)
       \/ RequestClaim(r)
       \/ ConfirmClaim(r)

SeqSpec == Init /\ [][SeqNext]_vars

\* one participation from the join to the confirmed claim: the task is live
\* and nobody has joined; the requests are served one after the other
LifeInit ==
  /\ StoreAfterJoins({})
  /\ reqs = [r \in Reqs |-> Idle]
  /\ last = NoResponse
  /\ now = 0
  /\ sigWrites = [i \in PartIds |-> 0]
  /\ chain = Cardinality(Tasks)
  /\ escrows = EscrowsOfLiveTasks

LifeNext ==
  \E r \in Reqs :
    /\ \A s \in Reqs \ {r} : Free(s)
    /\ \/ Join(r)
       \/ SubmitProof(r)
       \/ RequestClaim(r)
       \/ ConfirmClaim(r)

LifeSpec == LifeInit /\ [][LifeNext]_vars

\* verification of a task of each type: the task is live, of any of the
\* types POST /tasks accepts and with the target of its type, and joined by
\* the users other than its creator; submit-proof and re-verify are served
\* one after the other
VerifyInit ==
  /\ \E taskType \in TaskTypes :
       tasks = [t \in Tasks |->
                 [ActiveTask(NumUsers, MaxTime, FALSE, 0) EXCEPT
                    !.taskType = taskType,
                    !.targetData = TargetData({taskType}),
                    !.currentParticipants = NumUsers - 1]]
  /\ participants =
       [i \in PartIds |->
          IF i < NumUsers
            THEN NewParticipant(CHOOSE u \in Users \ {Creator} :
                                  Cardinality({v \in Users \ {Creator} : v <= u}) = i,
                                CHOOSE t \in Tasks : TRUE)
            ELSE NoDoc]
  /\ users = [u \in Users |-> NewUser(u)]
  /\ reqs = [r \in Reqs |-> Idle]
  /\ last = NoResponse
  /\ now = 0
  /\ sigWrites = [i \in PartIds |-> 0]
  /\ chain = Cardinality(Tasks)
  /\ escrows = EscrowsOfLiveTasks

VerifyNext ==
  \E r \in Reqs :
    /\ \A s \in Reqs \ {r} : Free(s)
    /\ \/ SubmitProof(r)
       \/ ReVerify(r)

VerifySpec == VerifyInit /\ [][VerifyNext]_vars

\* the callers' own routes on a task that every user has joined
PairInit ==
  /\ StoreAfterJoins(Users)
  /\ reqs = [r \in Reqs |-> Idle]
  /\ last = NoResponse
  /\ now = 0
  /\ sigWrites = [i \in PartIds |-> 0]
  /\ chain = Cardinality(Tasks)
  /\ escrows = EscrowsOfLiveTasks

PairNext ==
  \E r \in Reqs :
    \/ SubmitProof(r)
    \/ RequestClaim(r)
    \/ ConfirmClaim(r)

PairSpec == PairInit /\ [][PairNext]_vars

\* the joins of one task, from the store after the task's creation, or after
\* its creation and cancellation
JoinInit ==
  /\ \E maxP \in 1..2, exp \in {1, MaxTime}, mustV \in BOOLEAN, minF \in 0..1,
        status \in {"ACTIVE", "CANCELLED"} :
       tasks = [t \in Tasks |->
                 [ActiveTask(maxP, exp, mustV, minF) EXCEPT !.status = status]]
  /\ participants = [i \in PartIds |-> NoDoc]
  /\ users = [u \in Users |-> NewUser(u)]
  /\ reqs = [r \in Reqs |-> Idle]
  /\ last = NoResponse
  /\ now = 0
  /\ sigWrites = [i \in PartIds |-> 0]
  /\ chain = Cardinality(Tasks)
  /\ escrows = EscrowsOfLiveTasks

JoinNext == \E r \in Reqs : Join(r)

JoinSpec == JoinInit /\ [][JoinNext]_vars

\* a participation whose reward has been claimed and confirmed
ClaimedParticipant(u, t) ==
  [NewParticipant(u, t) EXCEPT
     !.status = "CLAIMED", !.rewardAmount = RewardPerParticipant,
     !.claimSignature = generateClaimSignature(t, u, RewardPerParticipant),
     !.claimedAt = 1, !.transactionHash = "0xabc"]

\* the task lifecycle: the tasks of Tasks are live, each joined by the users
\* other than its creator, whose participations are all pending or all claimed
TaskInit ==
  /\ tasks = [t \in TaskIds |->
               IF t \in Tasks
                 THEN [NewTask(Creator, NumUsers) EXCEPT
                         !.status = "ACTIVE", !.contractTaskId = t,
                         !.transactionHash = "0xescrow",
                         !.currentParticipants = NumUsers - 1]
                 ELSE NoDoc]
  /\ \E claimed \in BOOLEAN :
       participants =
         [i \in PartIds |->
            IF i < NumUsers
              THEN LET u == CHOOSE v \in Users \ {Creator} :
                              Cardinality({w \in Users \ {Creator} : w <= v}) = i
                       t == CHOOSE x \in Tasks : TRUE
                   IN IF claimed THEN ClaimedParticipant(u, t)
                                 ELSE NewParticipant(u, t)
              ELSE NoDoc]
  /\ users = [u \in Users |-> NewUser(u)]
  /\ reqs = [r \in Reqs |-> Idle]
  /\ last = NoResponse
  /\ now = 0
  /\ sigWrites = [i \in PartIds |-> 0]
  /\ chain = Cardinality(Tasks)
  /\ escrows = EscrowsOfLiveTasks

TaskNext == \E r \in Reqs : Create(r) \/ Update(r) \/ Cancel(r)

TaskSpec == TaskInit /\ [][TaskNext]_vars

\* joins and cancels of a live task that nobody has joined yet
JoinCancelInit ==
  /\ tasks = [t \in TaskIds |->
               IF t \in Tasks
                 THEN [NewTask(Creator, NumUsers) EXCEPT
                         !.status = "ACTIVE", !.contractTaskId = t,
                         !.transactionHash = "0xescrow"]
                 ELSE NoDoc]
  /\ participants = [i \in PartIds |-> NoDoc]
  /\ users = [u \in Users |-> NewUser(u)]
  /\ reqs = [r \in Reqs |-> Idle]
  /\ last = NoResponse
  /\ now = 0
  /\ sigWrites = [i \in PartIds |-> 0]
  /\ chain = Cardinality(Tasks)
  /\ escrows = EscrowsOfLiveTasks

JoinCancelNext == \E r \in Reqs : Join(r) \/ Cancel(r)

JoinCancelSpec == JoinCancelInit /\ [][JoinCancelNext]_vars

\* the escrow of a new task: a create of the creator that has saved its DRAFT,
\* for every maxParticipants the validation lets through, and is about to
\* call createTaskOnChain
EscrowInit ==
  /\ \E maxP \in 1..MaxParticipantsLimit :
       /\ tasks = [t \in TaskIds |->
                    IF t \in Tasks
                      THEN [NewTask(Creator, NumUsers) EXCEPT
                              !.status = "ACTIVE", !.contractTaskId = t,
                              !.transactionHash = "0xescrow"]
                    ELSE IF t = Cardinality(Tasks) + 1
                      THEN NewTask(Creator, maxP)
                    ELSE NoDoc]
       /\ reqs = [r \in Reqs |->
                   IF r = 1
                     THEN [Arrive("create", Creator, 0) EXCEPT
                             !.pc = "escrow", !.ld = NewTask(Creator, maxP),
                             !.task = Cardinality(Tasks) + 1, !.wrote = TRUE]
                     ELSE Idle]
  /\ participants = [i \in PartIds |-> NoDoc]
  /\ users = [u \in Users |-> NewUser(u)]
  /\ last = NoResponse
  /\ now = 0
  /\ sigWrites = [i \in PartIds |-> 0]
  /\ chain = Cardinality(Tasks)
  /\ escrows = EscrowsOfLiveTasks

EscrowNext ==
  \E r \in Reqs :
    \/ CreateEscrow(r)
    \/ CreateActivate(r)
    \/ CreateUpdateUser(r)
    \/ CreateDelete(r)

EscrowSpec == EscrowInit /\ [][EscrowNext]_vars


\* ================================================================ claims

\* the Participant documents of task t
DocsOf(t) == {i \in Docs : participants[i].task = t}

\* C1: in every state every task has currentParticipants <= maxParticipants,
\* and of the joins that race for its last slot one succeeds: the task never
\* has more Participant documents than maxParticipants.
C1_JoinsWithinCapacity ==
  \A t \in Tasks :
    /\ tasks[t].currentParticipants <= tasks[t].maxParticipants
    /\ Cardinality(DocsOf(t)) <= tasks[t].maxParticipants

\* a response that tells the caller its request was refused because of the
\* state of the store (4xx), as opposed to a failure of the system (5xx)
StateRejection(status) == status >= 400 /\ status < 500

\* C2: no (user, task) pair has two Participant documents, and a join that
\* loses to a join of the same pair is answered with a state rejection
\* (Conflict), not with a system failure.
C2_DuplicateJoinIsConflict ==
  /\ \A u \in Users, t \in Tasks : Cardinality(FindOne(u, t)) <= 1
  /\ (last.op = "join" /\ last.err = "E11000 duplicate key")
       => StateRejection(last.status)

\* the status order PENDING -> {VERIFIED | REJECTED}, VERIFIED -> CLAIMED
StatusAdvance(from, to) ==
  \/ to = from
  \/ from = "PENDING" /\ to \in {"VERIFIED", "REJECTED"}
  \/ from = "VERIFIED" /\ to = "CLAIMED"

\* C3: every step leaves every Participant's status where it is or moves it
\* one step along PENDING -> {VERIFIED | REJECTED} -> CLAIMED, CLAIMED being
\* entered from VERIFIED alone and REJECTED never left.
C3_StatusOnlyAdvances ==
  [][\A i \in Docs :
       StatusAdvance(participants[i].status, participants'[i].status)]_vars

\* C4: requestClaim issues a Participant's signature once: a request that
\* answers with a signature answers with the one stored, and no two requests
\* both write claimSignature as its first issuer.
C4_SignatureIssuedOnce ==
  /\ (last.op = "requestClaim" /\ last.status = 200)
       => participants[last.pid].claimSignature = last.sig
  /\ \A i \in PartIds : sigWrites[i] <= 1

\* C5: a Participant is CLAIMED only with a claimSignature: confirmClaim
\* fails while claimSignature is null.
C5_ClaimedHasSignature ==
  \A i \in Docs :
    participants[i].status = "CLAIMED" => participants[i].claimSignature # NoSig

\* the Participant documents of user u
DocsBy(u) == {i \in Docs : participants[i].user = u}

\* C6: once a Participant's claim is confirmed, no step writes its claimedAt
\* or transactionHash again, and no user has more completions counted than
\* Participant documents.
C6_ConfirmedOnce ==
  [][/\ \A i \in Docs :
          participants[i].claimedAt # NoDate =>
            /\ participants'[i].claimedAt = participants[i].claimedAt
            /\ participants'[i].transactionHash = participants[i].transactionHash
     /\ \A u \in Users :
          users'[u].totalTasksCompleted <= Cardinality(DocsBy(u))]_vars

\* C7: a step writes a Participant's claimSignature only while the stored
\* status is VERIFIED, and claimSignature is written once at most.
C7_SignatureWrittenOnceFromVerified ==
  [][\A i \in Docs :
       /\ participants'[i].claimSignature # participants[i].claimSignature
            => participants[i].status = "VERIFIED"
       /\ sigWrites'[i] <= 1]_vars

\* C8: a requestClaim whose hasClaimed query answered true is refused with
\* 'Reward already claimed on blockchain', has not called sign and has
\* written nothing to the Participant.
C8_AlreadyClaimedOnChain ==
  (last.op = "requestClaim" /\ last.hc = "true") =>
    /\ last.status = 400
    /\ last.message = "Reward already claimed on blockchain"
    /\ last.sig = NoSig
    /\ ~last.wrote

C8_Witness ==
  /\ last.op = "requestClaim" /\ last.hc = "true" /\ last.status = 400
  /\ participants[last.pid].status = "VERIFIED"
  /\ participants[last.pid].claimSignature = NoSig
  /\ participants[last.pid].rewardAmount = 0

\* the ledger call that failed in the handler of response l
LedgerFailed(l) ==
  l.op = "requestClaim" /\ (l.hc = "threw" \/ l.err = "signMessage failed")

\* C9: a requestClaim whose hasClaimed or sign call failed is answered with a
\* failure and has written nothing to the Participant.
C9_LedgerFailureWritesNothing ==
  LedgerFailed(last) => last.status = 500 /\ ~last.wrote

C9_Witness ==
  /\ LedgerFailed(last) /\ last.err = "signMessage failed" /\ last.hc = "false"
  /\ participants[last.pid].status = "VERIFIED"
  /\ participants[last.pid].claimSignature = NoSig
  /\ participants[last.pid].rewardAmount = 0

\* the paymaster outcomes that are no sponsorship: not configured,
\* unreachable, an error, a malformed reply
NoSponsorship ==
  {"notEnabled", "unreachable", "rpcError", "noResult", "malformedResult"}

\* C10: a requestClaim that got no sponsorship still answers with the
\* signature, stored on the Participant, and reports sponsorship not enabled.
C10_SponsorshipNeverBlocks ==
  (last.op = "requestClaim" /\ last.sp \in NoSponsorship) =>
    /\ last.status = 200
    /\ last.message = "Claim signature generated, sponsoredGas not enabled"
    /\ participants[last.pid].claimSignature = last.sig
    /\ last.sig # NoSig

\* the create that has inserted task t and has yet to answer
CreateInFlight(t) ==
  \E r \in Reqs : /\ reqs[r].op = "create" /\ reqs[r].task = t
                  /\ reqs[r].pc \in {"escrow", "activate", "updateUser", "delete"}

C12_ActiveHasEscrow ==
  /\ \A t \in TaskDocs :
       tasks[t].status = "ACTIVE" =>
         /\ tasks[t].contractTaskId # NoTaskId
         /\ tasks[t].contractTaskId \in 1..chain
  /\ \A t1, t2 \in TaskDocs :
       (t1 # t2 /\ tasks[t1].contractTaskId # NoTaskId)
          => tasks[t1].contractTaskId # tasks[t2].contractTaskId

C12_Witness ==
  \E t \in TaskDocs \ Tasks :
    /\ tasks[t].status = "ACTIVE"
    /\ tasks[t].contractTaskId = chain
    /\ last.op = "create" /\ last.status = 201 /\ last.task = t

\* the status order DRAFT -> ACTIVE -> {COMPLETED, CANCELLED}
TaskAdvance(from, to) ==
  \/ to = from
  \/ from = "DRAFT" /\ to = "ACTIVE"
  \/ from = "ACTIVE" /\ to \in {"COMPLETED", "CANCELLED"}

\* C13: every step leaves every Task's status where it is or moves it one
\* step along DRAFT -> ACTIVE -> {COMPLETED, CANCELLED}.
C13_TaskStatusOnlyAdvances ==
  [][\A t \in TaskDocs :
       tasks'[t] # Removed => TaskAdvance(tasks[t].status, tasks'[t].status)]_vars

\* the participations of task t whose reward is claimed
ClaimedOf(t) == {i \in Docs : participants[i].task = t
                              /\ participants[i].status = "CLAIMED"}

\* C14: a cancel by the creator of a task that has a CLAIMED Participant is
\* refused as an invalid state and writes nothing, and no task with a CLAIMED
\* Participant is CANCELLED.
C14_NoCancelAfterClaim ==
  /\ (/\ last.op = "cancel" /\ last.task \in TaskDocs
      /\ last.user = tasks[last.task].creator
      /\ ClaimedOf(last.task) # {})
       => (last.status = 400 /\ ~last.wrote)
  /\ \A t \in TaskDocs :
       tasks[t].status = "CANCELLED" => ClaimedOf(t) = {}

\* C15: a cancel by a requester other than the task's creator is answered
\* with 403 and has written nothing to the Task.
C15_CancelByCreatorOnly ==
  (/\ last.op = "cancel" /\ last.task \in TaskDocs
   /\ last.user # tasks[last.task].creator)
    => (last.status = 403 /\ last.message = "Not authorized" /\ ~last.wrote)

C15_Witness ==
  /\ last.op = "cancel" /\ last.task \in TaskDocs
  /\ last.user # tasks[last.task].creator /\ last.status = 403
  /\ tasks[last.task].status = "ACTIVE"

\* the step is taken by the handler in slot r
Steps(r) == reqs'[r] # reqs[r]

\* the step is a request answered by the first step of its handler
FirstStepAnswer(op) == reqs' = reqs /\ last'.op = op

\* the step is a request of slot r that goes on past its handler's first step
GoesOn(r, op) == Free(r) /\ reqs'[r].op = op

\* the step refuses a join: a 400, and the store as it was
JoinRefused ==
  /\ last'.op = "join" /\ last'.status = 400 /\ ~last'.wrote
  /\ participants' = participants /\ tasks' = tasks

\* NotActive, Full or Expired, for a join of task t that reads the clock at time
TaskRefuses(t, time) ==
  \/ tasks[t].status # "ACTIVE"
  \/ tasks[t].currentParticipants >= tasks[t].maxParticipants
  \/ time > tasks[t].expiresAt

\* RequirementNotMet, for user u with followers at the identity provider
\* (-1: the provider knows no such user)
RequirementNotMet(u, t, followers) ==
  \/ tasks[t].requirements.mustBeVerified /\ ~users[u].isVerified
  \/ /\ tasks[t].requirements.minimumFollowers > 0
     /\ (followers = -1 \/ followers < tasks[t].requirements.minimumFollowers)

\* C16: a join that reads a task that is not ACTIVE, is full or has expired,
\* a Participant of its (user, task), or an unmet requirement is refused and
\* writes nothing; a join goes on to write only when it has read none of these.
C16_JoinRefusals ==
  [][/\ FirstStepAnswer("join") =>
          JoinRefused /\ TaskRefuses(last'.task, now')
     /\ \A r \in Reqs :
          /\ GoesOn(r, "join") => ~TaskRefuses(reqs'[r].task, now')
          /\ (At(r, "join", "findParticipant") /\ Steps(r)) =>
               IF FindOne(reqs[r].user, reqs[r].task) # {}
                 THEN JoinRefused ELSE reqs'[r].pc = "requirements"
          /\ (At(r, "join", "requirements") /\ Steps(r)) =>
               LET followers == IF reqs'[r] = Idle THEN last'.num
                                ELSE reqs'[r].num
               IN IF RequirementNotMet(reqs[r].user, reqs[r].task, followers)
                    THEN JoinRefused ELSE reqs'[r].pc = "saveParticipant"
     /\ (participants' # participants \/ tasks' # tasks \/ last'.status = 201) =>
          \E r \in Reqs : /\ reqs[r].op = "join" /\ Steps(r)
                          /\ reqs[r].pc \in {"saveParticipant", "saveTask"}]_vars

C16_Witness ==
  /\ last.op = "join" /\ last.status = 400 /\ last.message = "Task is full"
  /\ tasks[last.task].status = "ACTIVE"
  /\ tasks[last.task].currentParticipants = tasks[last.task].maxParticipants
  /\ Cardinality(DocsOf(last.task)) = tasks[last.task].maxParticipants

\* C17: in every state a task's currentParticipants is the number of its
\* Participant documents: no state has the Participant without the increment
\* or the increment without the Participant.
C17_JoinWritesAreOne ==
  \A t \in Tasks : tasks[t].currentParticipants = Cardinality(DocsOf(t))

\* C18: a submitProof that reads its Participant in a status other than
\* PENDING is refused and writes nothing; one that reads PENDING records the
\* proof, and then sets VERIFIED when the auto-verification answers true and
\* writes nothing more when it answers false.
C18_SubmitProofFromPending ==
  [][/\ FirstStepAnswer("submitProof") =>
          /\ participants' = participants /\ last'.status >= 400
          /\ last'.message = "Cannot submit proof for this participant status"
               <=> \E i \in FindOne(last'.user, last'.task) :
                     last'.arg # "" /\ participants[i].status # "PENDING"
     /\ \A r \in Reqs :
          /\ GoesOn(r, "submitProof") =>
               participants[reqs'[r].pid].status = "PENDING"
          /\ (At(r, "submitProof", "saveProof") /\ Steps(r)) =>
               participants' = [participants EXCEPT ![reqs[r].pid] =
                 [@ EXCEPT !.proofSubmitted = TRUE, !.proofData = reqs[r].arg]]
          /\ (At(r, "submitProof", "autoVerify") /\ Steps(r)) =>
               IF last'.message = "Proof submitted, autoVerified"
                 THEN participants' = [participants EXCEPT ![reqs[r].pid] =
                        [@ EXCEPT !.status = "VERIFIED", !.verificationNotes =
                                    "Auto-verified via Snapchain API"]]
                 ELSE participants' = participants]_vars

C18_Witness ==
  /\ last.op = "submitProof" /\ last.message = "Proof submitted, not verified"
  /\ participants[last.pid].status = "PENDING"
  /\ participants[last.pid].proofSubmitted
  /\ participants[last.pid].proofData = "proof"

\* C19: a manualVerify by a user other than the task's creator is answered
\* with 403, one that reads a Participant that is not PENDING with 400, and
\* neither writes; one by the creator that reads PENDING sets VERIFIED if
\* approved and REJECTED otherwise.
C19_ManualVerifyByCreatorFromPending ==
  [][/\ (FirstStepAnswer("manualVerify") /\ last'.pid \in Docs) =>
          /\ participants' = participants
          /\ IF tasks[participants[last'.pid].task].creator # last'.user
               THEN last'.status = 403
               ELSE /\ last'.status = 400
                    /\ participants[last'.pid].status # "PENDING"
     /\ \A r \in Reqs :
          /\ GoesOn(r, "manualVerify") =>
               /\ tasks[participants[reqs'[r].pid].task].creator = reqs'[r].user
               /\ participants[reqs'[r].pid].status = "PENDING"
          /\ (At(r, "manualVerify", "save") /\ Steps(r)) =>
               /\ last'.status = 200
               /\ participants'[reqs[r].pid].status =
                    IF reqs[r].arg = "approved" THEN "VERIFIED" ELSE "REJECTED"]_vars

C19_Witness ==
  /\ last.op = "manualVerify" /\ last.status = 200
  /\ last.message = "Participant rejected successfully"
  /\ last.user = tasks[participants[last.pid].task].creator
  /\ participants[last.pid].status = "REJECTED"

\* C20: a reVerify of a Participant that is not PENDING is refused, and no
\* step of a reVerify changes the status of a Participant that is not PENDING.
C20_ReVerifyFromPendingOnly ==
  [][\A r \in Reqs :
       /\ GoesOn(r, "reVerify") => participants[reqs'[r].pid].status = "PENDING"
       /\ (/\ At(r, "reVerify", "autoVerify") /\ Steps(r)
           /\ participants[reqs[r].pid].status # "PENDING")
            => participants'[reqs[r].pid].status = participants[reqs[r].pid].status]_vars

\* C21: reVerify is idempotent for a fixed answer of the provider: after a
\* reVerify that verified, the save of a second one that reads the stored
\* document and verifies again leaves the document as it is; a reVerify that
\* did not verify writes nothing, the first time and the second.
C21_ReVerifyIdempotent ==
  [][\A r \in Reqs :
       (At(r, "reVerify", "autoVerify") /\ Steps(r)) =>
         LET once == participants'[reqs[r].pid] IN
           IF last'.message = "Re-verification completed, verified"
             THEN /\ once = ReVerifySave(participants[reqs[r].pid], reqs[r].ld)
                  /\ ReVerifySave(once, Copy(once, {"status", "verificationNotes"}))
                       = once
             ELSE participants' = participants]_vars

C21_Witness ==
  /\ last.op = "reVerify" /\ last.status = 200
  /\ last.message = "Re-verification completed, verified"
  /\ participants[last.pid].status = "VERIFIED"
  /\ participants[last.pid].verificationNotes = "Re-verified via Snapchain API"

\* C22: a requestClaim that finds the Participant in a status other than
\* VERIFIED, or with claimedAt set, is answered with an error before any call
\* of the ledger (hasClaimed, sign) and writes nothing; one that goes on found
\* it VERIFIED with claimedAt unset, and so did every requestClaim that writes.
C22_RequestClaimFromVerifiedUnclaimed ==
  [][/\ FirstStepAnswer("requestClaim") =>
          /\ participants' = participants
          /\ last'.status \in {400, 404}
          /\ last'.hc = Nil /\ last'.sig = NoSig /\ ~last'.wrote
          /\ \A i \in FindOne(last'.user, last'.task) :
               \/ participants[i].status # "VERIFIED"
               \/ participants[i].claimedAt # NoDate
     /\ \A r \in Reqs :
          /\ GoesOn(r, "requestClaim") =>
               /\ participants[reqs'[r].pid].status = "VERIFIED"
               /\ participants[reqs'[r].pid].claimedAt = NoDate
          /\ (reqs[r].op = "requestClaim" /\ Steps(r)
                /\ participants' # participants) =>
               /\ participants[reqs[r].pid].status = "VERIFIED"
               /\ participants[reqs[r].pid].claimedAt = NoDate]_vars

C22_Witness ==
  /\ last.op = "requestClaim" /\ last.status = 400
  /\ last.message = "Task not verified yet"
  /\ last.hc = Nil /\ last.sig = NoSig
  /\ \E i \in FindOne(last.user, last.task) : participants[i].status = "PENDING"


\* C23: every confirmClaim that succeeds adds 1 to the user's
\* totalTasksCompleted, ReputationIncrement to the reputation and the
\* rewardAmount of the participation it read to totalRewardsEarned, whatever
\* other confirmClaim of the same user is in flight.
C23_ConfirmAddsReward ==
  [][\A r \in Reqs :
       (At(r, "confirmClaim", "updateUser") /\ Steps(r)) =>
         LET u == reqs[r].user IN
           /\ users'[u].totalTasksCompleted = users[u].totalTasksCompleted + 1
           /\ users'[u].reputation = users[u].reputation + ReputationIncrement
           /\ users'[u].totalRewardsEarned =
                users[u].totalRewardsEarned + reqs[r].ld.rewardAmount]_vars

\* C24: in every state, each user's totalTasksCompleted counts every
\* Participant of the user that is CLAIMED, and totalRewardsEarned holds the
\* reward of each.
C24_ClaimedIsCounted ==
  \A u \in Users :
    LET claimed == {i \in DocsBy(u) : participants[i].status = "CLAIMED"} IN
      /\ users[u].totalTasksCompleted >= Cardinality(claimed)
      /\ \A i \in claimed :
           users[u].totalRewardsEarned >= participants[i].rewardAmount


\* C25: rewardAmount is written once: it holds its default exactly as long as
\* the Participant has no signature; a step changes it only from the default,
\* to the task's rewardPerParticipant, and that step is the save of a
\* requestClaim, which stores the signature with it; no later step changes it.
C25_RewardAmountWrittenOnce ==
  /\ [](\A i \in Docs :
          (participants[i].rewardAmount = 0)
            <=> (participants[i].claimSignature = NoSig))
  /\ [][\A i \in Docs :
          participants'[i].rewardAmount # participants[i].rewardAmount =>
            /\ participants[i].rewardAmount = 0
            /\ participants'[i].rewardAmount =
                 tasks[participants[i].task].rewardPerParticipant
            /\ participants'[i].claimSignature # NoSig
            /\ \E r \in Reqs : /\ At(r, "requestClaim", "save") /\ Steps(r)
                               /\ reqs[r].pid = i]_vars

C25_Witness ==
  /\ last.op = "confirmClaim" /\ last.status = 200
  /\ participants[last.pid].status = "CLAIMED"
  /\ participants[last.pid].rewardAmount =
       tasks[participants[last.pid].task].rewardPerParticipant
  /\ participants[last.pid].claimSignature # NoSig

\* the provider found nothing that verifies a task of the given type
NothingFound(taskType, a) ==
  CASE taskType = "FOLLOW_USER" -> ~a.targetFound \/ ~a.inFollowing
    [] taskType = "LIKE_CAST" -> ~a.inLikes
    [] taskType = "RECAST_CAST" -> ~a.inRecasts
    [] taskType = "JOIN_CHANNEL" -> ~a.isMember /\ ~a.isFollower

NotVerifiedResponses ==
  {"Proof submitted, not verified", "Re-verification completed, not verified"}

SignInputs ==
  (1..(MaxTasks + 1)) \X {users[u].walletAddress : u \in Users}
    \X {RewardPerParticipant * n : n \in 1..NumUsers}

SignatureOf(x) == generateClaimSignature(x[1], x[2], x[3])

C26_FundingFixed ==
  /\ [](\A t \in TaskDocs :
          tasks[t].totalFunding =
            tasks[t].rewardPerParticipant * tasks[t].maxParticipants)
  /\ [][\A t \in TaskDocs :
          tasks'[t] \notin {NoDoc, Removed} =>
            /\ tasks'[t].totalFunding = tasks[t].totalFunding
            /\ tasks'[t].rewardPerParticipant = tasks[t].rewardPerParticipant
            /\ tasks'[t].maxParticipants = tasks[t].maxParticipants]_vars

C26_Witness ==
  /\ last.op = "update" /\ last.status = 200 /\ last.wrote
  /\ last.task \in TaskDocs \ Tasks
  /\ tasks[last.task].maxParticipants = NumUsers
  /\ tasks[last.task].totalFunding = RewardPerParticipant * NumUsers

\* C29: no Task has more than one call of createTaskOnChain made for it.
C29_EscrowedAtMostOnce ==
  \A t \in DOMAIN escrows : Len(escrows[t]) <= 1

C29_Witness ==
  \E t \in TaskDocs \ Tasks :
    /\ Len(escrows[t]) = 1
    /\ tasks[t].status = "CANCELLED"
    /\ last.op = "cancel" /\ last.task = t

C34_EscrowedTaskIsKept ==
  \A t \in DOMAIN escrows :
    (\E k \in 1..Len(escrows[t]) : escrows[t][k].result = "confirmed")
      => tasks[t] \notin {NoDoc, Removed}

\* C35: whenever no join is in progress, each Task's currentParticipants is
\* the number of Participant documents of the task.
C35_CounterIsParticipantCount ==
  (\A r \in Reqs : Free(r)) =>
    \A t \in Tasks : tasks[t].currentParticipants = Cardinality(DocsOf(t))

\* C38: no step creates a Participant of a Task whose status is CANCELLED.
C38_NoJoinAfterCancel ==
  [][\A i \in PartIds :
       (participants[i] = NoDoc /\ participants'[i] # NoDoc)
         => tasks[participants'[i].task].status # "CANCELLED"]_vars

\* C39: a step changes the fields update writes only as the save of an update
\* by the Task's creator, and never on a Task that is ACTIVE, COMPLETED or
\* CANCELLED.
C39_UpdateOnlyDraft ==
  [][\A t \in TaskDocs :
       (tasks'[t] \notin {NoDoc, Removed}
         /\ \/ tasks'[t].expiresAt # tasks[t].expiresAt
            \/ tasks'[t].requirements # tasks[t].requirements)
         => /\ tasks[t].status = "DRAFT"
            /\ \E r \in Reqs : /\ At(r, "update", "save") /\ Steps(r)
                               /\ reqs[r].task = t
                               /\ reqs[r].user = tasks[t].creator]_vars


\* C31: served one after the other, on a live task with a free slot: a join
\* is refused at its first check only if the task is not ACTIVE, full or
\* expired, and ends with a PENDING Participant; a submitProof with a payload
\* for a PENDING Participant is taken up, and one the provider confirms sets
\* VERIFIED; a requestClaim for a VERIFIED, unclaimed Participant is taken up,
\* and with hasClaimed false and a signature it stores the signature and
\* leaves VERIFIED; a confirmClaim(h) of a Participant is taken up and ends
\* with CLAIMED, claimedAt set and transactionHash = h.
C31_HappyPath ==
  [][/\ FirstStepAnswer("join") =>
          \/ tasks[last'.task].status # "ACTIVE"
          \/ tasks[last'.task].currentParticipants
               >= tasks[last'.task].maxParticipants
          \/ now' > tasks[last'.task].expiresAt
     /\ FirstStepAnswer("submitProof") =>
          \/ last'.arg = ""
          \/ \A i \in FindOne(last'.user, last'.task) :
               participants[i].status # "PENDING"
     /\ FirstStepAnswer("requestClaim") =>
          \A i \in FindOne(last'.user, last'.task) :
            \/ participants[i].status # "VERIFIED"
            \/ participants[i].claimedAt # NoDate
     /\ FirstStepAnswer("confirmClaim") =>
          FindOne(last'.user, last'.task) = {}
     /\ \A r \in Reqs :
          /\ (At(r, "join", "saveTask") /\ Steps(r)) =>
               /\ last'.status = 201
               /\ participants'[reqs[r].pid].status = "PENDING"
               /\ participants'[reqs[r].pid].user = reqs[r].user
          /\ (At(r, "submitProof", "autoVerify") /\ Steps(r)
               /\ last'.message = "Proof submitted, autoVerified") =>
               /\ participants[reqs[r].pid].status = "PENDING"
               /\ participants'[reqs[r].pid].status = "VERIFIED"
          /\ (At(r, "requestClaim", "hasClaimed") /\ Steps(r)
               /\ reqs'[r].pc = "sign") => reqs'[r].hc = "false"
          /\ (At(r, "requestClaim", "save") /\ Steps(r)) =>
               /\ last'.status = 200
               /\ reqs[r].sig # NoSig
               /\ participants'[reqs[r].pid].claimSignature = reqs[r].sig
               /\ participants'[reqs[r].pid].status = "VERIFIED"
          /\ (At(r, "confirmClaim", "updateUser") /\ Steps(r)) =>
               /\ last'.status = 200
               /\ participants'[reqs[r].pid].status = "CLAIMED"
               /\ participants'[reqs[r].pid].claimedAt # NoDate
               /\ participants'[reqs[r].pid].transactionHash = reqs[r].arg]_vars

C31_Witness ==
  /\ last.op = "confirmClaim" /\ last.status = 200
  /\ participants[last.pid].status = "CLAIMED"
  /\ participants[last.pid].claimedAt # NoDate
  /\ participants[last.pid].transactionHash = last.arg
  /\ participants[last.pid].proofSubmitted
  /\ participants[last.pid].verificationNotes = "Auto-verified via Snapchain API"
  /\ participants[last.pid].claimSignature # NoSig


\* C32: a requestClaim goes through hasClaimed, sign, sponsorship and persist
\* in this order: it reaches sign only from hasClaimed with the answer false,
\* the sponsorship only from sign with a signature, the persist only from the
\* sponsorship, and from the sponsorship it always reaches the persist,
\* whatever the paymaster did; only the persist writes, and it stores the
\* signature that sign returned.
C32_RequestClaimStepOrder ==
  [][\A r \in Reqs :
       (reqs[r].op = "requestClaim" /\ Steps(r)) =>
         /\ reqs'[r].pc = "sign" =>
              (reqs[r].pc = "hasClaimed" /\ reqs'[r].hc = "false")
         /\ reqs'[r].pc = "sponsor" =>
              /\ reqs[r].pc = "sign" /\ reqs[r].hc = "false"
              /\ reqs'[r].sig # NoSig
         /\ reqs'[r].pc = "save" =>
              (reqs[r].pc = "sponsor" /\ reqs'[r].sig = reqs[r].sig)
         /\ reqs[r].pc = "sponsor" =>
              (reqs'[r].pc = "save" /\ reqs'[r].sp \in PaymasterOutcomes)
         /\ reqs[r].pc = "save" =>
              /\ last'.status = 200
              /\ reqs[r].hc = "false" /\ reqs[r].sig # NoSig
              /\ participants'[reqs[r].pid].claimSignature = reqs[r].sig
         /\ reqs[r].pc # "save" =>
              (participants' = participants /\ sigWrites' = sigWrites)]_vars

C32_Witness ==
  /\ last.op = "requestClaim" /\ last.status = 200
  /\ last.hc = "false" /\ last.sp = "unreachable"
  /\ last.sig # NoSig /\ last.wrote
  /\ participants[last.pid].claimSignature = last.sig


\* what the provider's answer says about a task of the given type
ActionDone(taskType, a) ==
  CASE taskType = "FOLLOW_USER" -> a.targetFound /\ a.inFollowing
    [] taskType = "LIKE_CAST" -> a.inLikes
    [] taskType = "RECAST_CAST" -> a.inRecasts
    [] taskType = "JOIN_CHANNEL" -> a.isMember \/ a.isFollower
    [] OTHER -> FALSE

C36_StoredSignatureAuthorizesStoredReward ==
  \A i \in Docs :
    participants[i].claimSignature # NoSig =>
      /\ participants[i].rewardAmount =
           tasks[participants[i].task].rewardPerParticipant
      /\ participants[i].claimSignature =
           generateClaimSignature(tasks[participants[i].task].contractTaskId,
                                  users[participants[i].user].walletAddress,
                                  participants[i].rewardAmount)

C36_Witness ==
  /\ last.op = "requestClaim" /\ last.status = 200 /\ last.sp = "ok"
  /\ sigWrites[last.pid] = 1
  /\ participants[last.pid].claimSignature =
       generateClaimSignature(tasks[last.task].contractTaskId,
                              users[last.user].walletAddress,
                              RewardPerParticipant)

\* C37: a step of a submitProof, requestClaim or confirmClaim of a user leaves
\* every Participant of another user and every other user's document as they
\* are; the first step of a request writes nothing.
C37_CallerOwnRecordsOnly ==
  [][\A r \in Reqs :
       Steps(r) =>
         IF Free(r)
           THEN participants' = participants /\ users' = users
           ELSE /\ \A i \in Docs :
                     participants[i].user # reqs[r].user
                       => participants'[i] = participants[i]
                /\ \A u \in Users \ {reqs[r].user} : users'[u] = users[u]]_vars

C37_Witness ==
  /\ last.op = "confirmClaim" /\ last.status = 200
  /\ participants[last.pid].user = last.user
  /\ participants[last.pid].status = "CLAIMED"
  /\ users[last.user].totalTasksCompleted = 1
  /\ \E i \in Docs :
       /\ participants[i].user # last.user
       /\ participants[i] = NewParticipant(participants[i].user, last.task)
       /\ users[participants[i].user] = NewUser(participants[i].user)

=============================================================================
